---- MODULE Spec2Model ----
(***************************************************************************)
(* Model of AdvancedControlSystemApp (TCC.py): the entries of the system,  *)
(* parse_coefficients, create_polynomial, the Routh-Hurwitz table of       *)
(* routh_hurwitz and the analysis windows opened by analyze_stability; the *)
(* controller frame, get_controller_tf, and the graphs drawn by            *)
(* generate_plots, show_poles_zeros and the report of generate_pdf_report. *)
(*                                                                         *)
(* Numbers.  A float is the record [v, t]: its value is v * 10^-4 +        *)
(* t * 10^-11.  v counts the units of the "%.4f" text the table is written *)
(* in; t (-1, 0 or 1) is a coefficient smaller in magnitude than the       *)
(* 1e-10 tolerance of the classification, which the user can type but      *)
(* which no "%.4f" text can hold.  A float with t # 0 has v = 0.           *)
(*                                                                         *)
(* Texts.  A table entry is the record [fmt, v, t]: the float the text     *)
(* parses to, and the way the text was written: "str" is str(c) of a       *)
(* polynomial coefficient, "zero" is the literal "0" appended to the       *)
(* second row, "f4" is f"{a:.4f}".                                         *)
(***************************************************************************)
EXTENDS Integers, Sequences, FiniteSets, TLC

\* num_entry, den_entry: the texts of the two entries of the system frame, as
\*   sequences of whitespace-separated tokens.
\* windows: the analysis windows (Toplevel) open, oldest first; each shows the
\*   denominator analysed, the table and the classification, and the pole
\*   diagram when it could be drawn.
\* dialog: the message boxes shown by the last command, in order.
\* ctrl_type: the text of the controller combobox; ctrl_fields: the
\*   controller type whose parameter entries update_controller_fields built
\*   last (the combobox can be edited without the fields being rebuilt).
\* kp_entry, ..., den_at_entry: the texts of the parameter entries (<<>> for
\*   an entry that does not exist).
\* show_..._var: the four check boxes of the graph selection.
\* input_var: the radio button of the input kind.
\* ax_noctrl_resp, ax_ctrl_resp, ax_noctrl_lgr, ax_ctrl_lgr: what each of the
\*   four axes shows: nothing, or the curve of a transfer function.
\* lines_noctrl_resp, lines_ctrl_resp: the lines plotted on the two response
\*   axes, in the order of the calls of plot().
\* ax_pz: the pole-zero diagram.
\* status_label: the text of the status bar.
\* temp_files: the PNG files of the list temp_files of the last
\*   generate_pdf_report that are still open and on disk.
\* escaped: an exception left the last command (Tk reports it on stderr).
VARIABLES num_entry, den_entry, windows, dialog,
          ctrl_type, ctrl_fields, kp_entry, ki_entry, kd_entry,
          num_c_entry, den_c_entry, num_at_entry, den_at_entry,
          show_noctrl_resp_var, show_ctrl_resp_var,
          show_noctrl_lgr_var, show_ctrl_lgr_var, input_var,
          ax_noctrl_resp, ax_ctrl_resp, ax_noctrl_lgr, ax_ctrl_lgr, ax_pz,
          lines_noctrl_resp, lines_ctrl_resp,
          status_label, temp_files, escaped

\* The controller frame.
ctrl_vars == <<ctrl_type, ctrl_fields, kp_entry, ki_entry, kd_entry,
               num_c_entry, den_c_entry, num_at_entry, den_at_entry>>

\* The check boxes of the graph selection frame and the radio button of the
\* input frame.
show_vars == <<show_noctrl_resp_var, show_ctrl_resp_var,
               show_noctrl_lgr_var, show_ctrl_lgr_var, input_var>>

\* The graph area.
ax_vars == <<ax_noctrl_resp, ax_ctrl_resp, ax_noctrl_lgr, ax_ctrl_lgr, ax_pz,
             lines_noctrl_resp, lines_ctrl_resp>>

vars == <<num_entry, den_entry, windows, dialog, ctrl_vars, show_vars, ax_vars,
          status_label, temp_files, escaped>>

\* Bounds of the model: coefficients typed are the integers -MaxCoef..MaxCoef
\* (and a tiny constant term), a denominator text has at most MaxLen tokens,
\* at most MaxWindows analysis windows are open at once.
MaxCoef == 2
MaxLen == 5
MaxWindows == 2

\* f"{a:.4f}": four decimals, so one unit of v is 1/Scale.
Scale == 10000

----------------------------------------------------------------------------
\* Floats

Flt(v, t) == [v |-> v, t |-> t]

Zero == Flt(0, 0)

\* The sign of a float: -1, 0 or 1.
Sign(x) == IF x.v > 0 THEN 1 ELSE IF x.v < 0 THEN -1 ELSE x.t

\* x == 0
IsZero(x) == x.v = 0 /\ x.t = 0

\* abs(x) < 1e-10: every nonzero v is at least 1e-4, every t is below 1e-10.
NearZero(x) == x.v = 0

Abs(n) == IF n < 0 THEN -n ELSE n

\* <<quotient, remainder>> of B * s by P, for 0 <= B < P and s >= 0, computed
\* bit by bit so that no intermediate value exceeds 3 * P.
RECURSIVE MulDivMod(_, _, _)
MulDivMod(B, s, P) ==
    IF s = 0 THEN <<0, 0>>
    ELSE LET h == MulDivMod(B, s \div 2, P)
             u == 2 * h[2] + (s % 2) * B
         IN <<2 * h[1] + u \div P, u % P>>

\* R * S / P rounded to the nearest integer (P # 0); the float arithmetic and
\* the "%.4f" rounding of line 469 agree with it except on an exact tie,
\* which the double nearest to the quotient decides; a tie is rounded away
\* from zero here.
RoundDiv(R, S, P) ==
    LET sg == (IF R < 0 THEN -1 ELSE 1) * (IF S < 0 THEN -1 ELSE 1)
                * (IF P < 0 THEN -1 ELSE 1)
        aP == Abs(P)
        A  == Abs(R) \div aP
        m  == MulDivMod(Abs(R) % aP, Abs(S), aP)
        q  == A * Abs(S) + m[1] + (IF 2 * m[2] >= aP THEN 1 ELSE 0)
    IN sg * q

----------------------------------------------------------------------------
\* Texts of the entries

\* One whitespace-separated token of an entry text: a number, or a token
\* float() rejects.
Tok(v, t) == [num |-> TRUE, v |-> v, t |-> t]

BadTok == [num |-> FALSE, v |-> 0, t |-> 0]

\* The token str(k) of the integer k.
IntTok(k) == Tok(k * Scale, 0)

\* A coefficient below the tolerance, such as 1e-11 (sg = 1) or -1e-11.
TinyTok(sg) == Tok(0, sg)

\* The error value of parse_coefficients.
None == <<BadTok>>

\* parse_coefficients(entry_text): the floats of the tokens in order, None as
\* soon as float() raises ValueError on one.
parse_coefficients(entry_text) ==
    IF \E k \in 1..Len(entry_text) : ~entry_text[k].num
    THEN None
    ELSE [k \in 1..Len(entry_text) |-> Flt(entry_text[k].v, entry_text[k].t)]

\* all_coeffs() of the Poly built by create_polynomial(coefficients): the
\* coefficients from the highest power with a nonzero coefficient down, and
\* [0] for the zero polynomial (an empty sum included).
RECURSIVE create_polynomial(_)
create_polynomial(coefficients) ==
    IF coefficients = <<>> THEN <<Zero>>
    ELSE IF IsZero(Head(coefficients)) /\ Len(coefficients) > 1
         THEN create_polynomial(Tail(coefficients))
         ELSE coefficients

----------------------------------------------------------------------------
\* Table entries

\* str(c) of a coefficient c.
Str(c) == [fmt |-> "str", v |-> c.v, t |-> c.t]

\* The literal "0" that completes the second row.
ZeroText == [fmt |-> "zero", v |-> 0, t |-> 0]

\* f"{a:.4f}" of the float with a units: four decimals, never the text "0".
F4(a) == [fmt |-> "f4", v |-> a, t |-> 0]

\* float(text)
Float(text) == Flt(text.v, text.t)

\* text == "0"
IsLiteralZero(text) == text.fmt = "zero"

\* A row of the table: row[0] is the label, row[1:] the entries e[1], e[2], ...
Row(label, e) == [label |-> label, e |-> e]

\* len(row)
RowLen(row) == Len(row.e) + 1

----------------------------------------------------------------------------
\* routh_hurwitz

\* The classification strings.
Estavel == [cls |-> "Estavel", k |-> 0]

MarginalmenteEstavel == [cls |-> "Marginalmente Estavel (polos no eixo imaginario)", k |-> 0]

InstavelSinais == [cls |-> "Instavel (coeficientes com sinais diferentes)", k |-> 0]

InstavelDivisao == [cls |-> "Instavel (divisao por zero na tabela)", k |-> 0]

\* f"Instavel ({sign_changes} polos no semiplano direito)"
InstavelPolos(sign_changes) == [cls |-> "Instavel (k polos no semiplano direito)", k |-> sign_changes]

\* The sign check without its second half: all(c > 0 for c in coeffs).
SameSignPositive(coeffs) ==
    \A k \in 1..Len(coeffs) : Sign(coeffs[k]) > 0

\* The sign check with any() in place of all().
SameSignAny(coeffs) ==
    \/ \E k \in 1..Len(coeffs) : Sign(coeffs[k]) > 0
    \/ \E k \in 1..Len(coeffs) : Sign(coeffs[k]) < 0

\* The sign check with >= and <= in place of > and <.
SameSignNonStrict(coeffs) ==
    \/ \A k \in 1..Len(coeffs) : Sign(coeffs[k]) >= 0
    \/ \A k \in 1..Len(coeffs) : Sign(coeffs[k]) <= 0

\* all(c > 0 for c in coeffs) or all(c < 0 for c in coeffs)
SameSign(coeffs) ==
    \/ \A k \in 1..Len(coeffs) : Sign(coeffs[k]) > 0
    \/ \A k \in 1..Len(coeffs) : Sign(coeffs[k]) < 0

\* ["s0"] + [str(c) for c in coeffs[::2]]
first_row(coeffs) ==
    Row("s0", [k \in 1..((Len(coeffs) + 1) \div 2) |-> Str(coeffs[2 * k - 1])])

\* The second row completed with "0" when n is even.
second_row_even(coeffs) ==
    LET e == [k \in 1..(Len(coeffs) \div 2) |-> Str(coeffs[2 * k])]
    IN Row("s1", IF Len(coeffs) % 2 = 0 THEN Append(e, ZeroText) ELSE e)

\* The second row never completed.
second_row_short(coeffs) ==
    Row("s1", [k \in 1..(Len(coeffs) \div 2) |-> Str(coeffs[2 * k])])

\* ["s1"] + [str(c) for c in coeffs[1::2]], completed with "0" when n is odd.
second_row(coeffs) ==
    LET e == [k \in 1..(Len(coeffs) \div 2) |-> Str(coeffs[2 * k])]
    IN Row("s1", IF Len(coeffs) % 2 = 1 THEN Append(e, ZeroText) ELSE e)

\* The entry of column j of the row under prev_prev_row and prev_row, in units
\* of 1/Scale:
\*   (prev_row[1] * prev_prev_row[j+1] - prev_prev_row[1] * prev_row[j+1]) / prev_row[1]
\* and 0 when the expression raises: prev_row has no index j+1 (IndexError),
\* or prev_row[1] is zero (ZeroDivisionError).
Element(prev_row, prev_prev_row, j) ==
    IF j + 1 > Len(prev_row.e) \/ IsZero(Float(prev_row.e[1]))
    THEN 0
    ELSE prev_prev_row.e[j + 1].v
           - RoundDiv(prev_prev_row.e[1].v, prev_row.e[j + 1].v, prev_row.e[1].v)

\* The row i with one entry fewer than the row above it.
current_row_prev(prev_row, prev_prev_row, i) ==
    Row("s^" \o ToString(i),
        [j \in 1..(Len(prev_row.e) - 1) |-> F4(Element(prev_row, prev_prev_row, j))])

\* The row i as lines 461-469 build it.
current_row(prev_row, prev_prev_row, i) ==
    Row("s^" \o ToString(i),
        [j \in 1..(Len(prev_prev_row.e) - 1) |-> F4(Element(prev_row, prev_prev_row, j))])

\* while len(row) > 1 and row[-1] == "0": row = row[:-1]
RECURSIVE RemoveZeros(_)
RemoveZeros(row) ==
    IF RowLen(row) > 1 /\ IsLiteralZero(row.e[Len(row.e)])
    THEN RemoveZeros(Row(row.label, SubSeq(row.e, 1, Len(row.e) - 1)))
    ELSE row

\* The pivot test on the text: prev_row[1] == "0".
ZeroPivotText(prev_row) == IsLiteralZero(prev_row.e[1])

\* float(prev_row[1]) == 0
ZeroPivot(prev_row) == IsZero(Float(prev_row.e[1]))

\* The loop "for i in range(2, n)" from index i on; table[i] of the code is
\* table[i + 1] here. zero is TRUE when the loop returned on a zero pivot.
RECURSIVE FillRows(_, _, _)
FillRows(table, i, n) ==
    IF i >= n THEN [table |-> table, zero |-> FALSE]
    ELSE IF ZeroPivot(table[i]) THEN [table |-> table, zero |-> TRUE]
    ELSE LET row == RemoveZeros(current_row(table[i], table[i - 1], i))
             grown == Append(table, row)
         IN IF RowLen(row) <= 1 THEN [table |-> grown, zero |-> FALSE]
            ELSE FillRows(grown, i + 1, n)

\* The first column of the two rows of coefficients only.
first_col_coeffs(table) ==
    LET F[k \in 0..Len(table)] ==
          IF k = 0 THEN <<>>
          ELSE IF RowLen(table[k]) > 1 /\ k <= 2 THEN Append(F[k - 1], Float(table[k].e[1]))
               ELSE F[k - 1]
    IN F[Len(table)]

\* first_col = [float(row[1]) for row in table if len(row) > 1]
first_col(table) ==
    LET F[k \in 0..Len(table)] ==
          IF k = 0 THEN <<>>
          ELSE IF RowLen(table[k]) > 1 THEN Append(F[k - 1], Float(table[k].e[1]))
               ELSE F[k - 1]
    IN F[Len(table)]

\* sum(1 for i in range(len(first_col)-1) if first_col[i]*first_col[i+1] < 0)
sign_changes(col) ==
    Cardinality({k \in 1..(Len(col) - 1) : Sign(col[k]) * Sign(col[k + 1]) < 0})

\* Lines 480-490: the classification of a finished table.
Classify(table) ==
    LET col == first_col(table)
    IN IF sign_changes(col) > 0 THEN InstavelPolos(sign_changes(col))
       ELSE IF \E k \in 1..Len(col) : NearZero(col[k]) THEN MarginalmenteEstavel
            ELSE Estavel

\* routh_hurwitz with a table that is not emptied between calls: the rows of
\* the previous analysis precede those of this one.
routh_hurwitz_kept(coeffs) ==
    LET n == Len(coeffs)
        kept == IF windows = <<>> THEN <<>> ELSE windows[Len(windows)].rh_table
    IN IF ~SameSign(coeffs)
       THEN [table |-> <<first_row(coeffs)>>, stability |-> InstavelSinais]
       ELSE LET start == IF n > 1 THEN <<first_row(coeffs), second_row(coeffs)>>
                         ELSE <<first_row(coeffs)>>
                filled == FillRows(start, 2, n)
            IN IF filled.zero
               THEN [table |-> kept \o filled.table, stability |-> InstavelDivisao]
               ELSE [table |-> kept \o filled.table, stability |-> Classify(filled.table)]

\* routh_hurwitz(s_poly), coeffs being s_poly.all_coeffs(): the pair
\* (table, stability).
routh_hurwitz(coeffs) ==
    LET n == Len(coeffs)
    IN IF ~SameSign(coeffs)
       THEN [table |-> <<first_row(coeffs)>>, stability |-> InstavelSinais]
       ELSE LET start == IF n > 1 THEN <<first_row(coeffs), second_row(coeffs)>>
                         ELSE <<first_row(coeffs)>>
                filled == FillRows(start, 2, n)
            IN IF filled.zero
               THEN [table |-> filled.table, stability |-> InstavelDivisao]
               ELSE [table |-> filled.table, stability |-> Classify(filled.table)]

----------------------------------------------------------------------------
\* Transfer functions (the control library, as the application calls it)

\* Float addition and multiplication.  Both are exact on the values the model
\* types (multiples of 1/Scale whose products are multiples of 1/Scale); a
\* part below the tolerance is carried to first order.
Add(a, b) == Flt(a.v + b.v, a.t + b.t)

\* x * y / Scale, rounded; exact without rounding when x or y is a multiple
\* of Scale.
Prod(x, y) ==
    IF x % Scale = 0 THEN (x \div Scale) * y
    ELSE IF y % Scale = 0 THEN x * (y \div Scale)
    ELSE RoundDiv(x, y, Scale)

Mul(a, b) == Flt(Prod(a.v, b.v), Prod(a.v, b.t) + Prod(b.v, a.t))

One == Flt(Scale, 0)

\* Every coefficient of p is exactly zero (an empty list included).
AllZero(p) == \A k \in 1..Len(p) : IsZero(p[k])

\* The constructor of TransferFunction drops the leading zero coefficients
\* of a list and keeps the last one.
RECURSIVE Truncate(_)
Truncate(p) ==
    IF Len(p) > 1 /\ IsZero(Head(p)) THEN Truncate(Tail(p)) ELSE p

\* The sum with the shorter list padded on the low-order side.
polyadd_low(p, q) ==
    LET n == IF Len(p) > Len(q) THEN Len(p) ELSE Len(q)
        at(x, k) == IF k <= Len(x) THEN x[k] ELSE Zero
    IN [k \in 1..n |-> Add(at(p, k), at(q, k))]

\* polyadd: the shorter list is padded with zeros on the high-order side.
polyadd(p, q) ==
    LET n == IF Len(p) > Len(q) THEN Len(p) ELSE Len(q)
        at(x, k) == IF k > n - Len(x) THEN x[k - (n - Len(x))] ELSE Zero
    IN [k \in 1..n |-> Add(at(p, k), at(q, k))]

\* The coefficient of polymul(p, q) at position k: the sum of p[i] * q[k+1-i]
\* over the i from lo on.
RECURSIVE ConvSum(_, _, _, _)
ConvSum(p, q, k, lo) ==
    IF lo > Len(p) \/ lo > k THEN Zero
    ELSE Add(IF k + 1 - lo <= Len(q) THEN Mul(p[lo], q[k + 1 - lo]) ELSE Zero,
             ConvSum(p, q, k, lo + 1))

\* The product of the two lists coefficient by coefficient (the * of two
\* arrays).
polymul_termwise(p, q) ==
    LET n == IF Len(p) > Len(q) THEN Len(p) ELSE Len(q)
        at(x, k) == IF k > n - Len(x) THEN x[k - (n - Len(x))] ELSE Zero
    IN [k \in 1..n |-> Mul(at(p, k), at(q, k))]

\* polymul: the convolution of the two coefficient lists.
polymul(p, q) ==
    IF p = <<>> \/ q = <<>> THEN <<>>
    ELSE [k \in 1..(Len(p) + Len(q) - 1) |-> ConvSum(p, q, k, 1)]

\* The outcomes of a call that builds a transfer function: the transfer
\* function, None, or an exception of class exc.
TransferFunction(num, den) ==
    [kind |-> "tf", num |-> Truncate(num), den |-> Truncate(den), exc |-> ""]

ReturnedNone == [kind |-> "None", num |-> <<>>, den |-> <<>>, exc |-> ""]

Raised(exc) == [kind |-> "raise", num |-> <<>>, den |-> <<>>, exc |-> exc]

----------------------------------------------------------------------------
\* The application

\* The texts of the examples of the menu "Exemplos Prontos":
\* " ".join(map(str, params["num"])) and the same of params["den"].
Text(ints) == [k \in 1..Len(ints) |-> IntTok(ints[k])]

examples ==
    [ primeira_ordem |-> [num |-> <<1>>, den |-> <<1, 1>>],
      segunda_ordem  |-> [num |-> <<1>>, den |-> <<1, 2, 1>>],
      instavel       |-> [num |-> <<1>>, den |-> <<1, -1, 1>>],
      integrador     |-> [num |-> <<1>>, den |-> <<1, 1, 0>>],
      oscilatorio    |-> [num |-> <<1>>, den |-> <<1, 0, 1>>] ]

\* The message boxes.
ErroFormato == "Formato invalido para coeficientes"

ErroAnalise == "Falha na analise de estabilidade"

\* Whether tf(num, den) of the control library raises: num is None, a
\* coefficient list is empty, or the denominator is zero.
tf_raises(num, den) ==
    \/ num = None
    \/ num = <<>>
    \/ den = <<>>
    \/ \A k \in 1..Len(den) : IsZero(den[k])

\* tf(num, den): the transfer function of the two coefficient lists; a
\* TypeError when a list is None, a ValueError when a list is empty or the
\* denominator is zero.
tf(num, den) ==
    IF num = None \/ den = None THEN Raised("TypeError")
    ELSE IF tf_raises(num, den) THEN Raised("ValueError")
    ELSE TransferFunction(num, den)

\* A + B, the parallel connection, in place of the series connection.
Plus(A, B) ==
    TransferFunction(polyadd(polymul(A.num, B.den), polymul(B.num, A.den)),
                     polymul(A.den, B.den))

\* A * B of two transfer functions (kp * G converts the float kp to the
\* transfer function kp / 1 first): the numerators are multiplied and the
\* denominators are multiplied; nothing is cancelled.
Times(A, B) == TransferFunction(polymul(A.num, B.num), polymul(A.den, B.den))

FromScalar(k) == TransferFunction(<<k>>, <<One>>)

\* feedback(G, 1): negative feedback through the transfer function 1 / 1; the
\* constructor raises ValueError on a zero denominator.
feedback(G) ==
    LET num == polymul(G.num, <<One>>)
        den == polyadd(polymul(<<One>>, G.den), polymul(<<One>>, G.num))
    IN IF AllZero(den) THEN Raised("ValueError") ELSE TransferFunction(num, den)

\* The roots of the polynomial p, each as the record [re] of the sign of its
\* real part (the tags of the application read nothing else): one root at
\* the origin for every trailing zero coefficient, and the roots of the
\* remaining factor when its degree is at most two.  The sum of the two
\* roots of a s^2 + b s + c is -b / a and their product is c / a, which
\* settle the signs of the real parts.  The roots of a remaining factor of
\* higher degree are not represented.
RECURSIVE DropLastZeros(_)
DropLastZeros(p) ==
    IF Len(p) > 1 /\ IsZero(p[Len(p)]) THEN DropLastZeros(SubSeq(p, 1, Len(p) - 1)) ELSE p

Root(s) == [re |-> s]

roots(p) ==
    LET q == Truncate(p)
        core == DropLastZeros(q)
        atOrigin == [k \in 1..(Len(q) - Len(core)) |-> Root(0)]
        a == Sign(core[1])
        rest == IF Len(core) = 2 THEN <<Root(-(a * Sign(core[2])))>>
                ELSE IF Len(core) = 3
                THEN (IF a * Sign(core[3]) < 0 THEN <<Root(-1), Root(1)>>
                      ELSE <<Root(-(a * Sign(core[2]))), Root(-(a * Sign(core[2])))>>)
                ELSE <<>>
    IN IF AllZero(q) THEN <<>> ELSE rest \o atOrigin

\* ctrl_poles(G) and ctrl_zeros(G)
ctrl_poles(G) == roots(G.den)

ctrl_zeros(G) == roots(G.num)

\* The tag with <= in place of <.
pole_label_nonstrict(pole) ==
    IF pole.re <= 0 THEN "Polo Estavel" ELSE "Polo Instavel"

\* The tag of a pole in the diagrams: green 'Polo Estavel' when pole.real < 0,
\* red 'Polo Instavel' otherwise.
pole_label(pole) ==
    IF pole.re < 0 THEN "Polo Estavel" ELSE "Polo Instavel"

\* The poles of G as the diagrams draw them.
tagged_poles(G) ==
    LET poles == ctrl_poles(G)
    IN [k \in 1..Len(poles) |-> [re |-> poles[k].re, label |-> pole_label(poles[k])]]

ErroValor == "Valor invalido"

ErroGraficos == "Ocorreu um erro ao gerar graficos"

ErroGeral == "Ocorreu um erro"

ErroPermissao == "Permissao negada para salvar o arquivo"

ErroPDF == "Falha ao gerar relatorio PDF"

\* The exception classes of the model: ValueError (float(), tf()), TypeError
\* (tf() of None), TclError (an entry that was destroyed; AttributeError when
\* it was never built), PermissionError and OSError (writing the report).
Exceptions == {"ValueError", "TypeError", "TclError", "PermissionError", "OSError"}

\* except ValueError
except_ValueError(exc) == exc = "ValueError"

\* except PermissionError
except_PermissionError(exc) == exc = "PermissionError"

\* The handler of a command that catches ValueError only.
except_Exception_narrow(exc) == exc = "ValueError"

\* except Exception
except_Exception(exc) == exc \in Exceptions

\* The values of the controller combobox.
ControllerTypes == {"P", "PI", "PD", "PID", "Avanco", "Atraso", "Avanco-Atraso"}

\* The parameter entries update_controller_fields builds for a type.
FieldsOf(type) ==
    {"kp"}
    \cup (IF type \in {"PI", "PID"} THEN {"ki"} ELSE {})
    \cup (IF type \in {"PD", "PID"} THEN {"kd"} ELSE {})
    \cup (IF type \in {"Avanco", "Atraso", "Avanco-Atraso"} THEN {"num_c", "den_c"} ELSE {})
    \cup (IF type = "Avanco-Atraso" THEN {"num_at", "den_at"} ELSE {})

\* The text "0.1" of the entries of Ki and Kd.
TenthTok == Tok(Scale \div 10, 0)

\* The text an entry holds when update_controller_fields has built it:
\* "1.0", "0.1", "0.1", "1", "1 1", "1", "1 1".
DefaultText(field) ==
    CASE field = "kp" -> <<IntTok(1)>>
      [] field \in {"ki", "kd"} -> <<TenthTok>>
      [] field \in {"num_c", "num_at"} -> Text(<<1>>)
      [] field \in {"den_c", "den_at"} -> Text(<<1, 1>>)

\* The entries of the frame after update_controller_fields for a type.
BuiltText(type, field) == IF field \in FieldsOf(type) THEN DefaultText(field) ELSE <<>>

\* float(text) succeeds on a text of one numeric token.
IsFloat(text) == Len(text) = 1 /\ text[1].num

float(text) == Flt(text[1].v, text[1].t)

\* The message box parse_coefficients shows when it returns None.
ParseMsg(text) == IF parse_coefficients(text) = None THEN <<ErroFormato>> ELSE <<>>

\* The product with the gain on the leading coefficient only.
ScaledLeading(coefficients, kp) ==
    [k \in 1..Len(coefficients) |->
        IF k = 1 THEN Mul(coefficients[k], kp) ELSE coefficients[k]]

\* np.array(coefficients) * kp
Scaled(coefficients, kp) == [k \in 1..Len(coefficients) |-> Mul(coefficients[k], kp)]

\* The lists with the coefficients in ascending powers of s.
gain_lists_ascending(type, kp, ki, kd) ==
    CASE type = "P" -> [num |-> <<kp>>, den |-> <<One>>]
      [] type = "PI" -> [num |-> <<ki, kp>>, den |-> <<Zero, One>>]
      [] type = "PD" -> [num |-> <<kp, kd>>, den |-> <<One>>]
      [] type = "PID" -> [num |-> <<ki, kp, kd>>, den |-> <<Zero, One>>]

\* The coefficient lists get_controller_tf hands to tf() for the types of
\* gains only: [kp] / [1], [kp, ki] / [1, 0], [kd, kp] / [1] and
\* [kd, kp, ki] / [1, 0].
gain_lists(type, kp, ki, kd) ==
    CASE type = "P" -> [num |-> <<kp>>, den |-> <<One>>]
      [] type = "PI" -> [num |-> <<kp, ki>>, den |-> <<One, Zero>>]
      [] type = "PD" -> [num |-> <<kd, kp>>, den |-> <<One>>]
      [] type = "PID" -> [num |-> <<kd, kp, ki>>, den |-> <<One, Zero>>]

\* The result of a call: what it returned or raised (out) and the message
\* boxes it showed (msgs).
Result(out, msgs) == [out |-> out, msgs |-> msgs]

\* The body of the try of get_controller_tf, statement by statement: reading
\* an entry that does not exist raises, float() raises ValueError, a None of
\* parse_coefficients returns None.
controller_tf_body ==
    LET has(field) == field \in FieldsOf(ctrl_fields)
        kp == float(kp_entry)
        num_c == parse_coefficients(num_c_entry)
        den_c == parse_coefficients(den_c_entry)
        num_at == parse_coefficients(num_at_entry)
        den_at == parse_coefficients(den_at_entry)
        msgs_c == ParseMsg(num_c_entry) \o ParseMsg(den_c_entry)
        msgs_at == ParseMsg(num_at_entry) \o ParseMsg(den_at_entry)
        G_avanco == tf(num_c, den_c)
        G_atraso == tf(num_at, den_at)
        gains(ki, kd) == LET lists == gain_lists(ctrl_type, kp, ki, kd)
                         IN Result(tf(lists.num, lists.den), <<>>)
    IN IF ~IsFloat(kp_entry) THEN Result(Raised("ValueError"), <<>>)
       ELSE CASE ctrl_type = "P" -> gains(Zero, Zero)
         [] ctrl_type = "PI" ->
              IF ~has("ki") THEN Result(Raised("TclError"), <<>>)
              ELSE IF ~IsFloat(ki_entry) THEN Result(Raised("ValueError"), <<>>)
              ELSE gains(float(ki_entry), Zero)
         [] ctrl_type = "PD" ->
              IF ~has("kd") THEN Result(Raised("TclError"), <<>>)
              ELSE IF ~IsFloat(kd_entry) THEN Result(Raised("ValueError"), <<>>)
              ELSE gains(Zero, float(kd_entry))
         [] ctrl_type = "PID" ->
              IF ~has("ki") THEN Result(Raised("TclError"), <<>>)
              ELSE IF ~IsFloat(ki_entry) THEN Result(Raised("ValueError"), <<>>)
              ELSE IF ~has("kd") THEN Result(Raised("TclError"), <<>>)
              ELSE IF ~IsFloat(kd_entry) THEN Result(Raised("ValueError"), <<>>)
              ELSE gains(float(ki_entry), float(kd_entry))
         [] ctrl_type \in {"Avanco", "Atraso"} ->
              IF ~has("num_c") THEN Result(Raised("TclError"), <<>>)
              ELSE IF num_c = None \/ den_c = None THEN Result(ReturnedNone, msgs_c)
              ELSE Result(tf(Scaled(num_c, kp), den_c), <<>>)
         [] ctrl_type = "Avanco-Atraso" ->
              IF ~has("num_c") THEN Result(Raised("TclError"), <<>>)
              ELSE IF ~has("num_at") THEN Result(Raised("TclError"), msgs_c)
              ELSE IF num_c = None \/ den_c = None \/ num_at = None \/ den_at = None
                   THEN Result(ReturnedNone, msgs_c \o msgs_at)
              ELSE IF G_avanco.kind = "raise" THEN Result(G_avanco, <<>>)
              ELSE IF G_atraso.kind = "raise" THEN Result(G_atraso, <<>>)
              ELSE Result(Times(Times(FromScalar(kp), G_avanco), G_atraso), <<>>)
         [] OTHER -> Result(ReturnedNone, <<>>)

\* get_controller_tf with the gain applied to both terms of 'Avanco-Atraso'.
get_controller_tf_twice ==
    LET body == controller_tf_body
        kp == float(kp_entry)
        G_avanco == tf(parse_coefficients(num_c_entry), parse_coefficients(den_c_entry))
        G_atraso == tf(parse_coefficients(num_at_entry), parse_coefficients(den_at_entry))
    IN IF body.out.kind = "raise" /\ except_ValueError(body.out.exc)
       THEN Result(ReturnedNone, body.msgs \o <<ErroValor>>)
       ELSE IF body.out.kind = "tf" /\ ctrl_type = "Avanco-Atraso"
       THEN Result(Times(Times(FromScalar(kp), G_avanco),
                         Times(FromScalar(kp), G_atraso)), body.msgs)
       ELSE body

\* get_controller_tf: the body, and the handler of ValueError, which shows a
\* message box and returns None.
get_controller_tf ==
    LET body == controller_tf_body
    IN IF body.out.kind = "raise" /\ except_ValueError(body.out.exc)
       THEN Result(ReturnedNone, body.msgs \o <<ErroValor>>)
       ELSE body

\* The texts of the status bar.
Pronto == "Pronto. Use Ctrl+G para gerar graficos."

StatusExemplo == "Exemplo carregado"

StatusSucesso == "Graficos gerados com sucesso!"

StatusErroGraficos == "Erro ao gerar graficos"

StatusRelatorio == "Relatorio salvo"

StatusErroRelatorio == "Erro ao gerar relatorio"

StatusLimpo == "Tudo limpo. Pronto para nova analise."

\* The values of the radio buttons of the input frame.
Inputs == {"Degrau", "Rampa", "Parabola"}

\* The time grid of the ramp and of the parabola: np.linspace(0, 10, 1000).
Horizon == 10

Samples == 1000

\* np.linspace(start, stop, num): sample k (counted from 1) is
\* start + (k - 1) * (stop - start) / (num - 1), rounded to the unit 1/Scale.
linspace(start, stop, num) ==
    [k \in 1..num |->
        Flt(start * Scale
              + (2 * (k - 1) * (stop - start) * Scale + (num - 1)) \div (2 * (num - 1)), 0)]

\* The reference without the division by two.
reference_square(input_type, t) ==
    IF input_type = "Rampa" THEN t
    ELSE [k \in 1..Len(t) |-> Mul(t[k], t[k])]

\* The reference input u over the grid t: u = t for "Rampa" and
\* u = (t**2) / 2 for "Parabola".
reference(input_type, t) ==
    IF input_type = "Rampa" THEN t
    ELSE [k \in 1..Len(t) |-> Flt((Mul(t[k], t[k]).v + 1) \div 2, 0)]

\* The outcomes of scipy_lsim(system, u, t) on the transfer function of the
\* control library: it returns (T, yout, xout), or it raises because the
\* system is neither an lti of scipy.signal nor a tuple.
LsimOutcomes == {"", "TypeError"}

\* The samples of an output: one per sample of the time grid; their values
\* are not computed.
yout(t) == [k \in 1..Len(t) |-> "y"]

\* A line of an axes: plot(x, y, label=label).
Line(label, x, y) == [label |-> label, x |-> x, y |-> y]

\* The line of plot(t, y) for t, y = step_response(system): the grid is
\* chosen by the library from the dynamics of the system and is not
\* represented.
step_lines == <<Line("", <<>>, <<>>)>>

\* The two lines of a ramp or parabola response: T is the grid lsim
\* returned, which is the grid it was given.
lsim_lines(input_type) ==
    LET t == linspace(0, Horizon, Samples)
        u == reference(input_type, t)
        T == t
    IN <<Line("Saida", T, yout(T)), Line("Entrada", T, u)>>

\* The lines a response axes shows after the branch of input_type has run
\* without an exception; an input_type that is none of the three plots
\* nothing.
response_lines(input_type) ==
    IF input_type = "Degrau" THEN step_lines
    ELSE IF input_type \in {"Rampa", "Parabola"} THEN lsim_lines(input_type)
    ELSE <<>>

\* An axes without a curve (after add_subplot, and after clear()); an axes
\* with a curve holds the transfer function whose response or root locus was
\* drawn.
Blank == [kind |-> "blank", num |-> <<>>, den |-> <<>>, exc |-> ""]

\* The pole-zero diagram before the first update_pz_plot and after
\* clear_all.
NoDiagram == [drawn |-> FALSE, poles |-> <<>>, zeros |-> <<>>]

\* The state after __init__: create_system_frame fills the two entries, the
\* controller frame is built for "P", the four check boxes are set, the axes
\* are empty (InitFrames), no analysis window is open and no message box was
\* shown.
InitFrames ==
    /\ ctrl_type = "P"
    /\ ctrl_fields = "P"
    /\ kp_entry = BuiltText("P", "kp")
    /\ ki_entry = BuiltText("P", "ki")
    /\ kd_entry = BuiltText("P", "kd")
    /\ num_c_entry = BuiltText("P", "num_c")
    /\ den_c_entry = BuiltText("P", "den_c")
    /\ num_at_entry = BuiltText("P", "num_at")
    /\ den_at_entry = BuiltText("P", "den_at")
    /\ show_noctrl_resp_var = TRUE
    /\ show_ctrl_resp_var = TRUE
    /\ show_noctrl_lgr_var = TRUE
    /\ show_ctrl_lgr_var = TRUE
    /\ input_var = "Degrau"
    /\ ax_noctrl_resp = Blank
    /\ ax_ctrl_resp = Blank
    /\ ax_noctrl_lgr = Blank
    /\ ax_ctrl_lgr = Blank
    /\ ax_pz = NoDiagram
    /\ lines_noctrl_resp = <<>>
    /\ lines_ctrl_resp = <<>>
    /\ status_label = Pronto
    /\ temp_files = 0
    /\ escaped = FALSE

Init ==
    /\ num_entry = Text(<<1>>)
    /\ den_entry = Text(<<1, 1>>)
    /\ windows = <<>>
    /\ dialog = <<>>
    /\ InitFrames

\* analyze_stability: the Toplevel it opens shows the table and the
\* classification of routh_hurwitz and, when tf() succeeds, the pole diagram;
\* dialog is the message boxes the call showed, in order.
analyze_stability ==
    LET den == parse_coefficients(den_entry)
        num == parse_coefficients(num_entry)
        rh  == routh_hurwitz(create_polynomial(den))
        G   == tf(num, den)
        shown == [den |-> den, rh_table |-> rh.table, stability |-> rh.stability,
                  poles |-> ~tf_raises(num, den),
                  pole_tags |-> IF G.kind = "tf" THEN tagged_poles(G) ELSE <<>>]
    IN /\ den # None => Len(windows) < MaxWindows
       /\ windows' = IF den = None THEN windows ELSE Append(windows, shown)
       /\ dialog' = IF den = None THEN <<ErroFormato>>
                    ELSE (IF num = None THEN <<ErroFormato>> ELSE <<>>)
                           \o (IF tf_raises(num, den) THEN <<ErroAnalise>> ELSE <<>>)
       /\ escaped' = (den # None /\ G.kind = "raise" /\ ~except_Exception(G.exc))
       /\ UNCHANGED <<num_entry, den_entry, ctrl_vars, show_vars, ax_vars,
                      status_label, temp_files>>

\* update_controller_fields: the entries of the frame are destroyed and the
\* entries of the type are built with their default texts.
BuildFields(type) ==
    /\ ctrl_fields' = type
    /\ kp_entry' = BuiltText(type, "kp")
    /\ ki_entry' = BuiltText(type, "ki")
    /\ kd_entry' = BuiltText(type, "kd")
    /\ num_c_entry' = BuiltText(type, "num_c")
    /\ den_c_entry' = BuiltText(type, "den_c")
    /\ num_at_entry' = BuiltText(type, "num_at")
    /\ den_at_entry' = BuiltText(type, "den_at")

\* load_example(example_name, example_params)
load_example(example_name) ==
    /\ num_entry' = Text(examples[example_name].num)
    /\ den_entry' = Text(examples[example_name].den)
    /\ dialog' = <<>>
    /\ status_label' = StatusExemplo
    /\ escaped' = FALSE
    /\ UNCHANGED <<windows, ctrl_vars, show_vars, ax_vars, temp_files>>

\* clear_all: the five axes are cleared, the entries are reset, the input
\* kind is set to "Degrau" and the controller frame is rebuilt for "P"; the
\* check boxes keep their values and the analysis windows belong to Tk and
\* stay open.
clear_all ==
    /\ ax_noctrl_resp' = Blank
    /\ ax_ctrl_resp' = Blank
    /\ ax_noctrl_lgr' = Blank
    /\ ax_ctrl_lgr' = Blank
    /\ ax_pz' = NoDiagram
    /\ lines_noctrl_resp' = <<>>
    /\ lines_ctrl_resp' = <<>>
    /\ num_entry' = Text(<<1>>)
    /\ den_entry' = Text(<<1, 1>>)
    /\ input_var' = "Degrau"
    /\ ctrl_type' = "P"
    /\ BuildFields("P")
    /\ status_label' = StatusLimpo
    /\ dialog' = <<>>
    /\ escaped' = FALSE
    /\ UNCHANGED <<windows, show_noctrl_resp_var, show_ctrl_resp_var,
                   show_noctrl_lgr_var, show_ctrl_lgr_var, temp_files>>

\* The denominator texts the user types in the application run.
TypedDen ==
    { <<>>, <<BadTok>>, Text(<<1, 2, 2, 1>>), <<IntTok(1), TinyTok(1)>> }

\* The numerator texts the user types.
TypedNum == { Text(<<1>>), <<BadTok>> }

\* The user edits the denominator entry.
TypeDen(text) ==
    /\ den_entry' = text
    /\ UNCHANGED <<num_entry, windows, dialog, ctrl_vars, show_vars, ax_vars,
                   status_label, temp_files, escaped>>

\* The user edits the numerator entry.
TypeNum(text) ==
    /\ num_entry' = text
    /\ UNCHANGED <<den_entry, windows, dialog, ctrl_vars, show_vars, ax_vars,
                   status_label, temp_files, escaped>>

\* The user closes the k-th analysis window.
CloseWindow(k) ==
    /\ k \in 1..Len(windows)
    /\ windows' = [j \in 1..(Len(windows) - 1) |-> IF j < k THEN windows[j] ELSE windows[j + 1]]
    /\ UNCHANGED <<num_entry, den_entry, dialog, ctrl_vars, show_vars, ax_vars,
                   status_label, temp_files, escaped>>

\* The user picks a type in the controller combobox, which runs
\* update_controller_fields.
update_controller_fields(selected) ==
    /\ ctrl_type' = selected
    /\ BuildFields(selected)
    /\ UNCHANGED <<num_entry, den_entry, windows, dialog, show_vars, ax_vars,
                   status_label, temp_files, escaped>>

\* The user types in the controller combobox: no event is bound to the
\* edit, so the entries of the frame stay as they are.
TypeCtrlType(text) ==
    /\ ctrl_type' = text
    /\ UNCHANGED <<ctrl_fields, kp_entry, ki_entry, kd_entry, num_c_entry,
                   den_c_entry, num_at_entry, den_at_entry>>
    /\ UNCHANGED <<num_entry, den_entry, windows, dialog, show_vars, ax_vars,
                   status_label, temp_files, escaped>>

\* The user edits the entry of Kp.
TypeKp(text) ==
    /\ kp_entry' = text
    /\ UNCHANGED <<ctrl_type, ctrl_fields, ki_entry, kd_entry, num_c_entry,
                   den_c_entry, num_at_entry, den_at_entry>>
    /\ UNCHANGED <<num_entry, den_entry, windows, dialog, show_vars, ax_vars,
                   status_label, temp_files, escaped>>

\* The user clicks the check boxes "Com controlador" of the response and of
\* the root locus.
ToggleCtrlResp ==
    /\ show_ctrl_resp_var' = ~show_ctrl_resp_var
    /\ UNCHANGED <<show_noctrl_resp_var, show_noctrl_lgr_var, show_ctrl_lgr_var, input_var>>
    /\ UNCHANGED <<num_entry, den_entry, windows, dialog, ctrl_vars, ax_vars,
                   status_label, temp_files, escaped>>

ToggleCtrlLgr ==
    /\ show_ctrl_lgr_var' = ~show_ctrl_lgr_var
    /\ UNCHANGED <<show_noctrl_resp_var, show_noctrl_lgr_var, show_ctrl_resp_var, input_var>>
    /\ UNCHANGED <<num_entry, den_entry, windows, dialog, ctrl_vars, ax_vars,
                   status_label, temp_files, escaped>>

\* The user clicks the check boxes "Sem controlador".
ToggleNoCtrlResp ==
    /\ show_noctrl_resp_var' = ~show_noctrl_resp_var
    /\ UNCHANGED <<show_ctrl_resp_var, show_noctrl_lgr_var, show_ctrl_lgr_var, input_var>>
    /\ UNCHANGED <<num_entry, den_entry, windows, dialog, ctrl_vars, ax_vars,
                   status_label, temp_files, escaped>>

ToggleNoCtrlLgr ==
    /\ show_noctrl_lgr_var' = ~show_noctrl_lgr_var
    /\ UNCHANGED <<show_noctrl_resp_var, show_ctrl_resp_var, show_ctrl_lgr_var, input_var>>
    /\ UNCHANGED <<num_entry, den_entry, windows, dialog, ctrl_vars, ax_vars,
                   status_label, temp_files, escaped>>

\* The user picks an input kind with the radio buttons.
SelectInput(inp) ==
    /\ input_var' = inp
    /\ UNCHANGED <<show_noctrl_resp_var, show_ctrl_resp_var,
                   show_noctrl_lgr_var, show_ctrl_lgr_var>>
    /\ UNCHANGED <<num_entry, den_entry, windows, dialog, ctrl_vars, ax_vars,
                   status_label, temp_files, escaped>>

\* update_noctrl_plots(G) on axes showing resp (with the lines it holds) and
\* lgr: the axes after it and the exception it raised ("" when none).  The
\* response axes are cleared before the closed loop is computed and
\* simulated; sim is the outcome of scipy_lsim, which the ramp and the
\* parabola call.
update_noctrl_plots(G, resp, lines, lgr, sim) ==
    LET sys_fb == feedback(G)
        exc == IF sys_fb.kind = "raise" THEN sys_fb.exc
               ELSE IF input_var = "Degrau" THEN "" ELSE sim
    IN IF show_noctrl_resp_var /\ exc # ""
       THEN [exc |-> exc, resp |-> Blank, lines |-> <<>>, lgr |-> lgr]
       ELSE [exc |-> "",
             resp |-> IF show_noctrl_resp_var THEN sys_fb ELSE resp,
             lines |-> IF show_noctrl_resp_var THEN response_lines(input_var) ELSE lines,
             lgr |-> IF show_noctrl_lgr_var THEN G ELSE lgr]

\* The root locus drawn from the closed loop.
update_ctrl_plots_closed(G, Gc, resp, lines, lgr, sim) ==
    LET sys_ol == Times(G, Gc)
        sys_cl == feedback(sys_ol)
        exc == IF input_var = "Degrau" THEN "" ELSE sim
    IN IF sys_cl.kind = "raise"
       THEN [exc |-> sys_cl.exc, resp |-> resp, lines |-> lines, lgr |-> lgr]
       ELSE IF show_ctrl_resp_var /\ exc # ""
       THEN [exc |-> exc, resp |-> Blank, lines |-> <<>>, lgr |-> lgr]
       ELSE [exc |-> "",
             resp |-> IF show_ctrl_resp_var THEN sys_cl ELSE resp,
             lines |-> IF show_ctrl_resp_var THEN response_lines(input_var) ELSE lines,
             lgr |-> IF show_ctrl_lgr_var THEN sys_cl ELSE lgr]

\* update_ctrl_plots(G, Gc): the open loop G * Gc and its closed loop are
\* computed first; the response axes show the closed loop, the root locus
\* axes the open loop.
update_ctrl_plots(G, Gc, resp, lines, lgr, sim) ==
    LET sys_ol == Times(G, Gc)
        sys_cl == feedback(sys_ol)
        exc == IF input_var = "Degrau" THEN "" ELSE sim
    IN IF sys_cl.kind = "raise"
       THEN [exc |-> sys_cl.exc, resp |-> resp, lines |-> lines, lgr |-> lgr]
       ELSE IF show_ctrl_resp_var /\ exc # ""
       THEN [exc |-> exc, resp |-> Blank, lines |-> <<>>, lgr |-> lgr]
       ELSE [exc |-> "",
             resp |-> IF show_ctrl_resp_var THEN sys_cl ELSE resp,
             lines |-> IF show_ctrl_resp_var THEN response_lines(input_var) ELSE lines,
             lgr |-> IF show_ctrl_lgr_var THEN sys_ol ELSE lgr]

\* rlocus(L): the characteristic polynomial den(s) + K num(s) whose roots the
\* locus of L traces, at the gain K.
char_poly(L, K) == polyadd(L.den, Scaled(L.num, K))

\* update_pz_plot(G): the diagram of the tagged poles and of the zeros.
update_pz_plot(G) ==
    [drawn |-> TRUE, poles |-> tagged_poles(G), zeros |-> ctrl_zeros(G)]

\* generate_plots: both entries are parsed; a None ends the command.  Then
\* tf(), the clearing of the four axes, update_noctrl_plots when one of its
\* boxes is set, get_controller_tf and update_ctrl_plots when one of their
\* boxes is set and the controller is not None, update_pz_plot and the
\* status of success.  An exception ends the body where it is raised; the
\* handler shows a message box and sets the status of the error.  Each local
\* of the body is bound once, in the order the body computes it.
generate_plots ==
    \E sim \in (IF input_var = "Degrau" THEN {""} ELSE LsimOutcomes),
       num \in {parse_coefficients(num_entry)},
       den \in {parse_coefficients(den_entry)} :
    \E G \in {tf(num, den)},
       untouched \in {[exc |-> "", resp |-> Blank, lines |-> <<>>, lgr |-> Blank]},
       wanted \in {show_ctrl_resp_var \/ show_ctrl_lgr_var} :
    \E noctrl \in {IF show_noctrl_resp_var \/ show_noctrl_lgr_var
                    THEN update_noctrl_plots(G, Blank, <<>>, Blank, sim)
                    ELSE untouched},
       Gc \in {IF wanted THEN get_controller_tf ELSE Result(ReturnedNone, <<>>)} :
    \E ctrl \in {IF Gc.out.kind = "tf"
                  THEN update_ctrl_plots(G, Gc.out, Blank, <<>>, Blank, sim)
                  ELSE [untouched EXCEPT !.exc = Gc.out.exc]} :
    \E exc \in {IF G.kind = "raise" THEN G.exc
                 ELSE IF noctrl.exc # "" THEN noctrl.exc ELSE ctrl.exc} :
       IF num = None \/ den = None
       THEN /\ dialog' = ParseMsg(num_entry) \o ParseMsg(den_entry)
            /\ escaped' = FALSE
            /\ UNCHANGED <<num_entry, den_entry, windows, ctrl_vars, show_vars, ax_vars,
                           status_label, temp_files>>
       ELSE /\ ax_noctrl_resp' = IF G.kind = "raise" THEN ax_noctrl_resp ELSE noctrl.resp
            /\ lines_noctrl_resp' = IF G.kind = "raise" THEN lines_noctrl_resp
                                    ELSE noctrl.lines
            /\ ax_noctrl_lgr' = IF G.kind = "raise" THEN ax_noctrl_lgr ELSE noctrl.lgr
            /\ ax_ctrl_resp' = IF G.kind = "raise" THEN ax_ctrl_resp
                               ELSE IF noctrl.exc # "" THEN Blank ELSE ctrl.resp
            /\ lines_ctrl_resp' = IF G.kind = "raise" THEN lines_ctrl_resp
                                  ELSE IF noctrl.exc # "" THEN <<>> ELSE ctrl.lines
            /\ ax_ctrl_lgr' = IF G.kind = "raise" THEN ax_ctrl_lgr
                              ELSE IF noctrl.exc # "" THEN Blank ELSE ctrl.lgr
            /\ ax_pz' = IF exc # "" THEN ax_pz ELSE update_pz_plot(G)
            /\ dialog' = (IF G.kind = "tf" /\ noctrl.exc = "" THEN Gc.msgs ELSE <<>>)
                           \o (IF exc # "" /\ except_Exception(exc)
                               THEN <<ErroGraficos>> ELSE <<>>)
            /\ status_label' = IF exc = "" THEN StatusSucesso
                               ELSE IF except_Exception(exc) THEN StatusErroGraficos
                               ELSE status_label
            /\ escaped' = (exc # "" /\ ~except_Exception(exc))
            /\ UNCHANGED <<num_entry, den_entry, windows, ctrl_vars, show_vars, temp_files>>

\* show_poles_zeros: both entries are parsed; a None ends the command; then
\* tf() and update_pz_plot.
show_poles_zeros ==
    LET num == parse_coefficients(num_entry)
        den == parse_coefficients(den_entry)
        G   == tf(num, den)
    IN /\ ax_pz' = IF G.kind = "tf" THEN update_pz_plot(G) ELSE ax_pz
       /\ dialog' = IF num = None \/ den = None
                    THEN ParseMsg(num_entry) \o ParseMsg(den_entry)
                    ELSE IF G.kind = "raise" /\ except_Exception(G.exc)
                    THEN <<ErroGeral>> ELSE <<>>
       /\ escaped' = (num # None /\ den # None /\ G.kind = "raise"
                        /\ ~except_Exception(G.exc))
       /\ UNCHANGED <<num_entry, den_entry, windows, ctrl_vars, show_vars,
                      ax_noctrl_resp, ax_ctrl_resp, ax_noctrl_lgr, ax_ctrl_lgr,
                      lines_noctrl_resp, lines_ctrl_resp, status_label, temp_files>>

\* The answers of the file dialog and the outcomes of writing the report:
\* written, or the exception open() raised.
FileDialog == {"", "relatorio.pdf"}

Output == {"", "PermissionError", "OSError"}

\* The figures add_plot_to_pdf saves: one for each check box set, and the
\* pole-zero diagram.
figures ==
    (IF show_noctrl_resp_var THEN 1 ELSE 0) + (IF show_ctrl_resp_var THEN 1 ELSE 0)
      + (IF show_noctrl_lgr_var THEN 1 ELSE 0) + (IF show_ctrl_lgr_var THEN 1 ELSE 0) + 1

\* generate_pdf_report: the file dialog; a cancelled dialog ends the command.
\* Both entries are parsed; a None ends the command.  Then save_temp_plot
\* writes a PNG file for each figure (the file is left open and is appended
\* to temp_files), then tf() and the table, and pdf.output(filepath); after
\* it the status is set and the files of temp_files are closed and unlinked.
\* PermissionError has its own handler, every other exception the handler of
\* Exception, which sets the status; no handler touches temp_files.
generate_pdf_report(filepath, output) ==
    LET num == parse_coefficients(num_entry)
        den == parse_coefficients(den_entry)
        G   == tf(num, den)
        returned == filepath = "" \/ num = None \/ den = None
        exc == IF G.kind = "raise" THEN G.exc ELSE output
    IN /\ dialog' = IF filepath = "" THEN <<>>
                    ELSE IF num = None \/ den = None
                    THEN ParseMsg(num_entry) \o ParseMsg(den_entry)
                    ELSE IF exc = "" THEN <<>>
                    ELSE IF except_PermissionError(exc) THEN <<ErroPermissao>>
                    ELSE IF except_Exception(exc) THEN <<ErroPDF>>
                    ELSE <<>>
       /\ temp_files' = IF returned \/ exc = "" THEN 0 ELSE figures
       /\ status_label' = IF returned THEN status_label
                          ELSE IF exc = "" THEN StatusRelatorio
                          ELSE IF except_PermissionError(exc) THEN status_label
                          ELSE IF except_Exception(exc) THEN StatusErroRelatorio
                          ELSE status_label
       /\ escaped' = (/\ filepath # ""
                      /\ num # None /\ den # None
                      /\ exc # ""
                      /\ ~except_PermissionError(exc)
                      /\ ~except_Exception(exc))
       /\ UNCHANGED <<num_entry, den_entry, windows, ctrl_vars, show_vars, ax_vars>>

Next ==
    \/ analyze_stability
    \/ \E name \in DOMAIN examples : load_example(name)
    \/ clear_all
    \/ \E text \in TypedDen : TypeDen(text)
    \/ \E text \in TypedNum : TypeNum(text)
    \/ \E k \in 1..MaxWindows : CloseWindow(k)

Spec == Init /\ [][Next]_vars

----------------------------------------------------------------------------
\* routh_hurwitz over every denominator within the bounds

\* The coefficients typed: the integers -MaxCoef..MaxCoef.
Coefs == { IntTok(k) : k \in (-MaxCoef)..MaxCoef }

\* The denominator texts of at most MaxLen coefficients; the constant term may
\* also be a coefficient below the tolerance (the table arithmetic never
\* divides by the constant term of a denominator of three or more
\* coefficients, so every entry stays within the "%.4f" units).
DenTexts ==
    LET ints == UNION { [1..n -> Coefs] : n \in 0..MaxLen }
    IN ints \cup { [d EXCEPT ![Len(d)] = TinyTok(sg)] :
                     d \in { x \in ints : Len(x) > 0 }, sg \in {-1, 1} }

InitRouth ==
    /\ num_entry = Text(<<1>>)
    /\ den_entry \in DenTexts
    /\ windows = <<>>
    /\ dialog = <<>>
    /\ InitFrames

NextRouth == windows = <<>> /\ analyze_stability

SpecRouth == InitRouth /\ [][NextRouth]_vars

----------------------------------------------------------------------------
\* get_controller_tf and generate_plots over every controller frame within
\* the bounds

\* The texts typed in the entries of the gains, and in the entries of the
\* numerators and of the denominators of the controller.
GainTexts == { <<IntTok(1)>>, <<IntTok(MaxCoef)>>, <<TenthTok>>, <<BadTok>> }

NumTexts == { Text(<<1>>), Text(<<MaxCoef, 1>>), <<BadTok>> }

DenTextsCtrl == { Text(<<1, 1>>), Text(<<1, MaxCoef>>), Text(<<0>>) }

\* The texts typed in the controller combobox: a type of the list, typed
\* without the fields being rebuilt, and a text that is no type.
TypedCtrlTypes == {"PI", "Avanco-Atraso", "Outro"}

\* The texts an entry of the frame built for a type can hold.
EntryTexts(type, field, texts) == IF field \in FieldsOf(type) THEN texts ELSE {<<>>}

\* The systems analysed: 1/(s+1), 1/(s^2+s) and (s+1)/(s^2+MaxCoef s+1).
Systems ==
    { [num |-> Text(<<1>>), den |-> Text(<<1, 1>>)],
      [num |-> Text(<<1>>), den |-> Text(<<1, 1, 0>>)],
      [num |-> Text(<<1, 1>>), den |-> Text(<<1, MaxCoef, 1>>)] }

\* Any state of the entries the user can reach by picking a type, editing the
\* entries and editing the combobox, before the first command.
InitCtrl ==
    /\ \E sys \in Systems : num_entry = sys.num /\ den_entry = sys.den
    /\ windows = <<>>
    /\ dialog = <<>>
    /\ ctrl_fields \in ControllerTypes
    /\ ctrl_type \in {ctrl_fields} \cup TypedCtrlTypes
    /\ kp_entry \in GainTexts
    /\ ki_entry \in EntryTexts(ctrl_fields, "ki", GainTexts)
    /\ kd_entry \in EntryTexts(ctrl_fields, "kd", GainTexts)
    /\ num_c_entry \in EntryTexts(ctrl_fields, "num_c", NumTexts)
    /\ den_c_entry \in EntryTexts(ctrl_fields, "den_c", DenTextsCtrl)
    /\ num_at_entry \in EntryTexts(ctrl_fields, "num_at", NumTexts)
    /\ den_at_entry \in EntryTexts(ctrl_fields, "den_at", DenTextsCtrl)
    /\ show_noctrl_resp_var = TRUE
    /\ show_ctrl_resp_var = TRUE
    /\ show_noctrl_lgr_var = TRUE
    /\ show_ctrl_lgr_var = TRUE
    /\ input_var = "Degrau"
    /\ ax_noctrl_resp = Blank
    /\ ax_ctrl_resp = Blank
    /\ ax_noctrl_lgr = Blank
    /\ ax_ctrl_lgr = Blank
    /\ ax_pz = NoDiagram
    /\ lines_noctrl_resp = <<>>
    /\ lines_ctrl_resp = <<>>
    /\ status_label = Pronto
    /\ temp_files = 0
    /\ escaped = FALSE

NextCtrl == generate_plots

SpecCtrl == InitCtrl /\ [][NextCtrl]_vars

----------------------------------------------------------------------------
\* The commands of the application on the graphs

\* The text typed in the entry of Kp, in the combobox and in the entry of
\* the denominator during the run of the commands.
TypedKp == { <<BadTok>> }

TypedType == {"PI"}

\* The type picked in the combobox during the run.
SelectedTypes == {"PI"}

NextPlots ==
    \/ generate_plots
    \/ show_poles_zeros
    \/ \E filepath \in FileDialog, output \in Output : generate_pdf_report(filepath, output)
    \/ windows = <<>> /\ analyze_stability
    \/ CloseWindow(1)
    \/ clear_all
    \/ load_example("integrador")
    \/ \E selected \in SelectedTypes : update_controller_fields(selected)
    \/ \E text \in TypedType : TypeCtrlType(text)
    \/ \E text \in TypedKp : TypeKp(text)
    \/ \E text \in TypedNum : TypeNum(text)

SpecPlots == Init /\ [][NextPlots]_vars

----------------------------------------------------------------------------
\* The responses to the three input kinds

NextSim ==
    \/ generate_plots
    \/ \E inp \in Inputs : SelectInput(inp)
    \/ ToggleNoCtrlResp
    \/ ToggleCtrlResp

SpecSim == Init /\ [][NextSim]_vars

----------------------------------------------------------------------------
\* The report

NextReport ==
    \/ \E filepath \in FileDialog, output \in Output : generate_pdf_report(filepath, output)
    \/ \E text \in TypedDen : TypeDen(text)
    \/ \E text \in TypedNum : TypeNum(text)
    \/ ToggleNoCtrlResp
    \/ ToggleNoCtrlLgr
    \/ ToggleCtrlResp
    \/ ToggleCtrlLgr

SpecReport == Init /\ [][NextReport]_vars

----------------------------------------------------------------------------
\* The classical Routh array, for reference

\* The analysis windows open.
Shown == { windows[k] : k \in 1..Len(windows) }

\* The coefficients routh_hurwitz received for the window w.
CoeffsOf(w) == create_polynomial(w.den)

\* Every coefficient is an integer (no coefficient below the tolerance).
Integral(coeffs) == \A k \in 1..Len(coeffs) : coeffs[k].t = 0 /\ coeffs[k].v % Scale = 0

\* The integer coefficients.
Ints(coeffs) == [k \in 1..Len(coeffs) |-> coeffs[k].v \div Scale]

Sgn(n) == IF n > 0 THEN 1 ELSE IF n < 0 THEN -1 ELSE 0

\* Entry j of a row of the classical array; an entry past the end is zero.
At(row, j) == IF j <= Len(row) THEN row[j] ELSE 0

\* The row under pprev and prev of the classical array, scaled by the positive
\* factor |prev[1]| (which changes no sign): exact integer arithmetic.
ClassicalRow(prev, pprev) ==
    [j \in 1..(Len(pprev) - 1) |->
        (prev[1] * pprev[j + 1] - pprev[1] * At(prev, j + 1)) * Sgn(prev[1])]

\* The rows of the classical array of the integer coefficients c (Len(c) >= 2).
RECURSIVE ClassicalRows(_, _)
ClassicalRows(rows, n) ==
    IF Len(rows) >= n THEN rows
    ELSE ClassicalRows(Append(rows, ClassicalRow(rows[Len(rows)], rows[Len(rows) - 1])), n)

\* The first column of the classical array of c, up to positive factors.
ClassicalColumn(c) ==
    LET n == Len(c)
        r0 == [k \in 1..((n + 1) \div 2) |-> c[2 * k - 1]]
        r1 == [k \in 1..(n \div 2) |-> c[2 * k]]
        rows == ClassicalRows(<<r0, r1>>, n)
    IN [k \in 1..n |-> rows[k][1]]

\* The number of sign changes along a column without zeros.
ClassicalSignChanges(col) ==
    Cardinality({k \in 1..(Len(col) - 1) : col[k] * col[k + 1] < 0})

----------------------------------------------------------------------------
\* Claims

\* C1: for every denominator of degree >= 1 whose coefficients are all
\* strictly positive and whose classical Routh array has a strictly positive
\* first column, routh_hurwitz returns 'Estavel'.
ClaimC1 ==
    \A w \in Shown :
        LET coeffs == CoeffsOf(w)
        IN (/\ Len(coeffs) >= 2
            /\ Integral(coeffs)
            /\ \A k \in 1..Len(coeffs) : coeffs[k].v > 0
            /\ \A k \in 1..Len(coeffs) : ClassicalColumn(Ints(coeffs))[k] > 0)
           => w.stability = Estavel

\* C2: whenever routh_hurwitz passes the sign check, meets no zero pivot and
\* reports 'Instavel (k polos no semiplano direito)', k is the number of sign
\* changes of the first column of the classical Routh array (taken where that
\* column has no zero, so that the number is defined).
ClaimC2 ==
    \A w \in Shown :
        LET coeffs == CoeffsOf(w)
            col == ClassicalColumn(Ints(coeffs))
        IN (/\ w.stability.cls = InstavelPolos(0).cls
            /\ Integral(coeffs)
            /\ \A k \in 1..Len(col) : col[k] # 0)
           => w.stability.k = ClassicalSignChanges(col)

\* C3: analysing den=[1,0,1] yields 'Marginalmente Estavel'.
ClaimC3 ==
    \A w \in Shown :
        w.den = parse_coefficients(Text(<<1, 0, 1>>)) => w.stability = MarginalmenteEstavel

\* C4 as claimed: analysing den=[1,-1,1] yields Unstable with a reported
\* sign-change count of 1.
ClaimC4Original ==
    \A w \in Shown :
        w.den = parse_coefficients(Text(<<1, -1, 1>>)) => w.stability = InstavelPolos(1)

\* C4 (amended): analysing den=[1,-1,1] yields the Unstable classification
\* with the mixed-sign reason, which reports no sign-change count, and a table
\* of the single row [1, 1].
TheoremC4 ==
    \A w \in Shown :
        w.den = parse_coefficients(Text(<<1, -1, 1>>))
        => /\ w.stability = InstavelSinais
           /\ Len(w.rh_table) = 1
           /\ w.rh_table[1].label = "s0"
           /\ [k \in 1..Len(w.rh_table[1].e) |-> Float(w.rh_table[1].e[k])]
                = <<Flt(Scale, 0), Flt(Scale, 0)>>

WitnessC4 ==
    \E w \in Shown : w.den = parse_coefficients(Text(<<1, -1, 1>>))

\* The coefficients are neither all strictly positive nor all strictly
\* negative.
MixedSigns(coeffs) ==
    \/ \E k \in 1..Len(coeffs) : Sign(coeffs[k]) = 0
    \/ \E j, k \in 1..Len(coeffs) : Sign(coeffs[j]) > 0 /\ Sign(coeffs[k]) < 0

Passed(w) == ~MixedSigns(CoeffsOf(w))

DegreeOne(w) ==
    /\ Len(CoeffsOf(w)) = 2
    /\ Sign(CoeffsOf(w)[1]) * Sign(CoeffsOf(w)[2]) > 0

\* The table of w is exactly the two rows [a] and [b].
TwoRows(w) ==
    /\ Len(w.rh_table) = 2
    /\ Len(w.rh_table[1].e) = 1 /\ Float(w.rh_table[1].e[1]) = CoeffsOf(w)[1]
    /\ Len(w.rh_table[2].e) = 1 /\ Float(w.rh_table[2].e[1]) = CoeffsOf(w)[2]

ClaimC8 ==
    \A w \in Shown :
        Integral(CoeffsOf(w))
        => \A i \in 3..Len(w.rh_table) :
              LET e == w.rh_table[i].e
              IN Len(e) > 1 => ~IsZero(Float(e[Len(e)]))

\* C9: for every denominator with at least two coefficients that passes the
\* sign check, row 0 holds the coefficients at even positions and row 1 those
\* at odd positions, in descending-power order, row 1 is completed with one
\* zero exactly when the number of coefficients is odd, and rows 0 and 1 have
\* the same number of entries.
TheoremC9 ==
    \A w \in Shown :
        LET coeffs == CoeffsOf(w)
            n == Len(coeffs)
            row0 == w.rh_table[1].e
            row1 == w.rh_table[2].e
        IN (Passed(w) /\ n >= 2)
           => /\ Len(w.rh_table) >= 2
              /\ Len(row0) = Len(row1)
              /\ Len(row0) = (n + 1) \div 2
              /\ \A k \in 1..Len(row0) : Float(row0[k]) = coeffs[2 * k - 1]
              /\ \A k \in 1..(n \div 2) : Float(row1[k]) = coeffs[2 * k]
              /\ (n % 2 = 1) <=> IsLiteralZero(row1[Len(row1)])
              /\ \A k \in 1..Len(row1) : IsLiteralZero(row1[k]) => (k = Len(row1) /\ n % 2 = 1)

\* A denominator with an odd number (five) of coefficients passed the sign
\* check, so row 1 was completed.
WitnessC9 ==
    \E w \in Shown :
        /\ Passed(w)
        /\ Len(CoeffsOf(w)) = 5
        /\ Len(w.rh_table) >= 2
        /\ IsLiteralZero(w.rh_table[2].e[3])

----------------------------------------------------------------------------
\* Claims on the controller and on the graphs

\* The frame was built for the type the combobox shows, and Kp is numeric.
FrameOf(type) == ctrl_type = type /\ ctrl_fields = type /\ IsFloat(kp_entry)

\* The coefficient list is a list (not None) of a nonzero polynomial.
Proper(coefficients) ==
    coefficients # None /\ coefficients # <<>> /\ ~AllZero(coefficients)

\* generate_plots drew the root locus of the open loop with the controller.
DrewCtrl == ax_ctrl_lgr.kind = "tf"

\* The system of the two entries of the system frame.
System == tf(parse_coefficients(num_entry), parse_coefficients(den_entry))

\* C11: for 'Avanco-Atraso' with gain Kp and the terms n1/d1 and n2/d2 (all
\* four lists numeric, nonzero denominators and numerators),
\* get_controller_tf returns the transfer function of numerator
\* Kp * conv(n1, n2) and denominator conv(d1, d2): Kp scales the numerator
\* once and does not enter the denominator; the root locus drawn with the
\* controller is that of the system times this transfer function.
TheoremC11 ==
    LET n1 == parse_coefficients(num_c_entry)
        d1 == parse_coefficients(den_c_entry)
        n2 == parse_coefficients(num_at_entry)
        d2 == parse_coefficients(den_at_entry)
        Gc == get_controller_tf.out
        expected == TransferFunction(Scaled(polymul(n1, n2), float(kp_entry)),
                                     polymul(d1, d2))
    IN (FrameOf("Avanco-Atraso") /\ Proper(n1) /\ Proper(d1) /\ Proper(n2) /\ Proper(d2))
       => /\ Gc = expected
          /\ DrewCtrl => ax_ctrl_lgr = Times(System, expected)

\* A lead-lag controller with Kp = MaxCoef and a numerator of two
\* coefficients was built and its root locus drawn.
WitnessC11 ==
    /\ FrameOf("Avanco-Atraso")
    /\ kp_entry = <<IntTok(MaxCoef)>>
    /\ num_c_entry = Text(<<MaxCoef, 1>>)
    /\ num_at_entry = Text(<<MaxCoef, 1>>)
    /\ den_c_entry = Text(<<1, MaxCoef>>)
    /\ den_at_entry = Text(<<1, 1>>)
    /\ DrewCtrl

\* C12: for all numeric gains, get_controller_tf returns [Kp] / [1] for 'P',
\* [Kp, Ki] / [1, 0] for 'PI', [Kd, Kp] / [1] for 'PD' and
\* [Kd, Kp, Ki] / [1, 0] for 'PID' (coefficients in descending powers of s),
\* and the root locus drawn with the controller is that of the system times
\* this transfer function.
TheoremC12 ==
    LET kp == float(kp_entry)
        ki == float(ki_entry)
        kd == float(kd_entry)
        Gc == get_controller_tf.out
        Is(num, den) == /\ Gc.kind = "tf"
                        /\ Gc.num = Truncate(num)
                        /\ Gc.den = den
                        /\ DrewCtrl => ax_ctrl_lgr = Times(System, Gc)
    IN /\ FrameOf("P") => Is(<<kp>>, <<One>>)
       /\ (FrameOf("PI") /\ IsFloat(ki_entry)) => Is(<<kp, ki>>, <<One, Zero>>)
       /\ (FrameOf("PD") /\ IsFloat(kd_entry)) => Is(<<kd, kp>>, <<One>>)
       /\ (FrameOf("PID") /\ IsFloat(ki_entry) /\ IsFloat(kd_entry))
            => Is(<<kd, kp, ki>>, <<One, Zero>>)

\* A PID controller of three different gains was built and its root locus
\* drawn.
WitnessC12 ==
    /\ FrameOf("PID")
    /\ kp_entry = <<IntTok(MaxCoef)>>
    /\ ki_entry = <<TenthTok>>
    /\ kd_entry = <<IntTok(1)>>
    /\ DrewCtrl

\* C13: for 'Avanco' and 'Atraso' with a numeric Kp, a numeric numerator and
\* a numeric nonzero denominator (both written without leading zeros),
\* get_controller_tf returns the transfer function whose numerator is Kp
\* times each coefficient of the numerator typed and whose denominator is the
\* denominator typed, unchanged.
TheoremC13 ==
    LET kp == float(kp_entry)
        num_c == parse_coefficients(num_c_entry)
        den_c == parse_coefficients(den_c_entry)
        Gc == get_controller_tf.out
    IN ((FrameOf("Avanco") \/ FrameOf("Atraso"))
          /\ Proper(num_c) /\ Proper(den_c)
          /\ ~IsZero(Mul(num_c[1], kp)) /\ ~IsZero(den_c[1]))
       => /\ Gc.kind = "tf"
          /\ Len(Gc.num) = Len(num_c)
          /\ \A k \in 1..Len(num_c) : Gc.num[k] = Mul(kp, num_c[k])
          /\ Gc.den = den_c
          /\ DrewCtrl => ax_ctrl_lgr = Times(System, Gc)

\* A lead controller with Kp = MaxCoef and a numerator of two coefficients
\* was built and its root locus drawn.
WitnessC13 ==
    /\ FrameOf("Avanco")
    /\ kp_entry = <<IntTok(MaxCoef)>>
    /\ num_c_entry = Text(<<MaxCoef, 1>>)
    /\ den_c_entry = Text(<<1, MaxCoef>>)
    /\ DrewCtrl

\* The coefficient of s^j in the polynomial of the list p.
Coef(p, j) == IF j < Len(p) THEN p[Len(p) - j] ELSE Zero

\* The list c is the sum of the polynomials of p and q, power by power.
IsSum(c, p, q) ==
    /\ \A j \in 0..(Len(p) + Len(q)) : Coef(c, j) = Add(Coef(p, j), Coef(q, j))
    /\ Len(c) = 1 \/ ~IsZero(c[1])

\* The transfer function cl is the unity negative feedback loop around ol.
IsUnityLoop(cl, ol) ==
    /\ cl.kind = "tf"
    /\ cl.num = ol.num
    /\ IsSum(cl.den, ol.den, ol.num)

\* C14: the closed loops drawn by update_noctrl_plots and update_ctrl_plots
\* are feedback(G, 1) and feedback(G * Gc, 1): the numerator of the closed
\* loop is the numerator of the open loop and its denominator is the
\* denominator of the open loop plus that numerator, coefficients added at
\* matching powers of s; for G = 1 / (s + 1) the closed loop is [1] / [1, 2].
TheoremC14 ==
    /\ ax_noctrl_resp.kind = "tf" => IsUnityLoop(ax_noctrl_resp, System)
    /\ ax_ctrl_resp.kind = "tf" => IsUnityLoop(ax_ctrl_resp, ax_ctrl_lgr)
    /\ (ax_noctrl_resp.kind = "tf" /\ num_entry = Text(<<1>>) /\ den_entry = Text(<<1, 1>>))
         => /\ ax_noctrl_resp.num = <<One>>
            /\ ax_noctrl_resp.den = <<One, Flt(2 * Scale, 0)>>

\* Both closed loops were drawn, for a system whose numerator is shorter
\* than its denominator and a PID controller.
WitnessC14 ==
    /\ ax_noctrl_resp.kind = "tf"
    /\ ax_ctrl_resp.kind = "tf"
    /\ Len(System.num) < Len(System.den)
    /\ ctrl_type = "PID"

\* The sum of Coef(p, i) * Coef(q, j - i) over the i from lo to j.
RECURSIVE ProductCoef(_, _, _, _)
ProductCoef(p, q, j, lo) ==
    IF lo > j THEN Zero
    ELSE Add(Mul(Coef(p, lo), Coef(q, j - lo)), ProductCoef(p, q, j, lo + 1))

\* The list c is the product of the polynomials of p and q, power by power.
IsProduct(c, p, q) ==
    \A j \in 0..(Len(p) + Len(q)) : Coef(c, j) = ProductCoef(p, q, j, 0)

\* C15: the open loop G * Gc drawn by update_ctrl_plots has the convolution
\* of the two numerators as numerator and the convolution of the two
\* denominators as denominator; the degree of its denominator is the sum of
\* the degrees of the two denominators (a factor common to a numerator and a
\* denominator is not cancelled), and Gc * G is the same transfer function.
TheoremC15 ==
    LET G == System
        Gc == get_controller_tf.out
        ol == ax_ctrl_lgr
    IN DrewCtrl
       => /\ IsProduct(ol.num, G.num, Gc.num)
          /\ IsProduct(ol.den, G.den, Gc.den)
          /\ Len(ol.den) - 1 = (Len(G.den) - 1) + (Len(Gc.den) - 1)
          /\ Len(ol.num) - 1 = (Len(G.num) - 1) + (Len(Gc.num) - 1)
          /\ ol = Times(Gc, G)

\* The open loop of the system (s + 1) / (s^2 + MaxCoef s + 1) with a lead
\* controller of denominator s + 1 was drawn.
WitnessC15 ==
    /\ DrewCtrl
    /\ num_entry = Text(<<1, 1>>)
    /\ FrameOf("Avanco")
    /\ num_c_entry = Text(<<MaxCoef, 1>>)
    /\ den_c_entry = Text(<<1, 1>>)

\* The tagged poles on display: those of the pole-zero diagram and those of
\* the pole diagrams of the analysis windows.
PolesShown ==
    { ax_pz.poles[k] : k \in 1..Len(ax_pz.poles) }
    \cup UNION { { w.pole_tags[k] : k \in 1..Len(w.pole_tags) } : w \in Shown }

FieldReady(field, text) ==
    field \in FieldsOf(ctrl_type)
    => /\ field \in FieldsOf(ctrl_fields)
       /\ IF field \in {"kp", "ki", "kd"} THEN IsFloat(text)
          ELSE parse_coefficients(text) # None

\* Kp and every field the type requires are present and numeric.
Complete ==
    /\ ctrl_type \in ControllerTypes
    /\ FieldReady("kp", kp_entry)
    /\ FieldReady("ki", ki_entry)
    /\ FieldReady("kd", kd_entry)
    /\ FieldReady("num_c", num_c_entry)
    /\ FieldReady("den_c", den_c_entry)
    /\ FieldReady("num_at", num_at_entry)
    /\ FieldReady("den_at", den_at_entry)

\* generate_plots has drawn the graphs without controller.
DrewNoCtrl == ax_noctrl_resp.kind = "tf"

\* C17: get_controller_tf produces a transfer function only when Kp and
\* every field the type requires are present and numeric; otherwise its
\* outcome is None (no exception leaves get_controller_tf), and
\* generate_plots then does not call update_ctrl_plots.
ClaimC17 ==
    LET Gc == get_controller_tf.out
    IN DrewNoCtrl
       => /\ Gc.kind = "tf" => Complete
          /\ Gc.kind # "tf" => (Gc = ReturnedNone /\ ~DrewCtrl)

\* parse_coefficients returns, for a text of numeric tokens, their floats
\* in the order of the text, and None (no partial list) for any other text.
ParsesInOrder(text) ==
    LET parsed == parse_coefficients(text)
    IN IF \A k \in 1..Len(text) : text[k].num
       THEN /\ parsed # None
            /\ Len(parsed) = Len(text)
            /\ \A k \in 1..Len(text) : parsed[k] = Flt(text[k].v, text[k].t)
       ELSE parsed = None

\* A command that parses the entries of the system frame runs.
Command ==
    \/ generate_plots
    \/ show_poles_zeros
    \/ analyze_stability
    \/ \E filepath \in FileDialog \ {""}, output \in Output :
          generate_pdf_report(filepath, output)

\* C18: parse_coefficients returns the list in input order when every token
\* is numeric and None as soon as one is not; a command that receives None
\* for the numerator or the denominator stops there: it builds no transfer
\* function, so it opens no window, draws nothing and shows no message box
\* but the one of parse_coefficients.
ClaimC18 ==
    [][/\ ParsesInOrder(num_entry) /\ ParsesInOrder(den_entry)
       /\ (/\ Command
           /\ \/ parse_coefficients(num_entry) = None
              \/ parse_coefficients(den_entry) = None)
          => /\ windows' = windows
             /\ UNCHANGED ax_vars
             /\ \A k \in 1..Len(dialog') : dialog'[k] = ErroFormato]_vars

\* The body of the command that runs fails: an entry of the system frame
\* does not parse, tf() raises, get_controller_tf is called and gives no
\* transfer function for a type of the list, or the report cannot be
\* written.
Fails ==
    \/ parse_coefficients(num_entry) = None
    \/ parse_coefficients(den_entry) = None
    \/ System.kind = "raise"
    \/ /\ generate_plots
       /\ show_ctrl_resp_var \/ show_ctrl_lgr_var
       /\ ctrl_type \in ControllerTypes
       /\ get_controller_tf.out.kind # "tf"
    \/ \E filepath \in FileDialog \ {""}, output \in Output \ {""} :
          generate_pdf_report(filepath, output)

ClaimC20 ==
    [][generate_plots
       => \/ /\ show_noctrl_resp_var => ax_noctrl_resp'.kind = "tf"
             /\ show_noctrl_lgr_var => ax_noctrl_lgr'.kind = "tf"
             /\ show_ctrl_resp_var => ax_ctrl_resp'.kind = "tf"
             /\ show_ctrl_lgr_var => ax_ctrl_lgr'.kind = "tf"
             /\ ax_pz'.drawn
          \/ UNCHANGED ax_vars]_vars

----------------------------------------------------------------------------
\* Claims on the root locus, on the responses, on the table and on the report

\* The locus drawn is that of the open loop ol, and at gain 0 its
\* characteristic polynomial is the denominator of ol: as many branches as
\* ol has poles, starting at these poles.
LocusOf(locus, ol) ==
    /\ locus = ol
    /\ Truncate(char_poly(locus, Zero)) = ol.den
    /\ Len(Truncate(char_poly(locus, Zero))) - 1 = Len(ol.den) - 1
    /\ roots(char_poly(locus, Zero)) = ctrl_poles(ol)

\* C21: the root locus is always computed from the open-loop transfer
\* function (G without controller, G * Gc with controller), never from the
\* closed loop, so at gain K = 0 the characteristic polynomial
\* den(s) + K num(s) equals the open-loop denominator and the branches start
\* at the open-loop poles, one branch per open-loop pole.
TheoremC21 ==
    /\ ax_noctrl_lgr.kind = "tf" => LocusOf(ax_noctrl_lgr, System)
    /\ DrewCtrl => LocusOf(ax_ctrl_lgr, Times(System, get_controller_tf.out))

\* Both loci were drawn, for the system 1 / (s^2 + s) and a PI controller:
\* the open loop has two poles at the origin, the closed loop has none.
WitnessC21 ==
    /\ ax_noctrl_lgr.kind = "tf"
    /\ DrewCtrl
    /\ FrameOf("PI")
    /\ den_entry = Text(<<1, 1, 0>>)
    /\ Len(ctrl_poles(ax_ctrl_lgr)) = 3
    /\ ax_ctrl_lgr # ax_ctrl_resp

\* x * x / 2 in units of 1/Scale, rounded once.
HalfSquare(x) == RoundDiv(x.v, x.v, 2 * Scale)

\* The lines are those of a response to the ramp or to the parabola: the
\* output and the reference over one grid of Samples strictly increasing
\* instants from 0 to Horizon, the reference being the instant (ramp) or
\* half its square (parabola, to one unit of rounding).
SimulationOf(lines, input_type) ==
    /\ Len(lines) = 2
    /\ LET time == lines[1].x
           output == lines[1].y
           ref == lines[2].y
       IN /\ lines[2].x = time
          /\ Len(time) = Samples
          /\ Len(output) = Samples
          /\ Len(ref) = Samples
          /\ time[1] = Zero
          /\ time[Samples] = Flt(Horizon * Scale, 0)
          /\ \A k \in 1..(Samples - 1) : time[k].v < time[k + 1].v
          /\ \A k \in 1..Samples :
                IF input_type = "Rampa" THEN ref[k] = time[k]
                ELSE ref[k].t = 0 /\ Abs(ref[k].v - HalfSquare(time[k])) <= 1

Hurwitz(c) ==
    Len(c) >= 2
    => LET col == ClassicalColumn(c)
       IN /\ \A k \in 1..Len(col) : col[k] # 0
          /\ ClassicalSignChanges(col) = 0

ClaimC24 ==
    \A w \in Shown :
        (/\ w.stability = MarginalmenteEstavel
         /\ Integral(CoeffsOf(w))
         /\ Len(CoeffsOf(w)) >= 2)
        => ~Hurwitz(Ints(CoeffsOf(w)))

\* The window w shows a table built to its end: the sign check passed and no
\* zero pivot was met.
Completed(w) == Passed(w) /\ w.stability # InstavelDivisao

\* The table has degree + 1 rows, each computed row has one entry fewer than
\* the row two above it, and the last row has one entry.
Staircase(w) ==
    LET table == w.rh_table
    IN /\ Len(table) = Len(CoeffsOf(w))
       /\ \A i \in 3..Len(table) : Len(table[i].e) = Len(table[i - 2].e) - 1
       /\ Len(table[Len(table)].e) = 1

EntriesBuilt == FieldsOf(ctrl_fields)

\* The parameter entries get_controller_tf reads for the type the combobox
\* shows.
EntriesRead == FieldsOf(ctrl_type)

\* C26: after any sequence of controller-type changes and clear_all calls,
\* the parameter entries that exist are exactly those get_controller_tf
\* reads for the type currently shown in the type box (Kp always, Ki iff PI
\* or PID, Kd iff PD or PID, numerator and denominator iff Avanco, Atraso or
\* Avanco-Atraso, the second pair iff Avanco-Atraso); get_controller_tf
\* therefore never reads an entry that was never created or was destroyed
\* by an earlier update_controller_fields.
ClaimC26 ==
    /\ EntriesBuilt = EntriesRead
    /\ controller_tf_body.out.exc # "TclError"

\* Every graph selected by the four check boxes shows a curve.
SelectedDrawn ==
    /\ show_noctrl_resp_var => ax_noctrl_resp.kind = "tf"
    /\ show_noctrl_lgr_var => ax_noctrl_lgr.kind = "tf"
    /\ show_ctrl_resp_var => ax_ctrl_resp.kind = "tf"
    /\ show_ctrl_lgr_var => ax_ctrl_lgr.kind = "tf"

\* C27: generate_plots sets the status 'Graficos gerados com sucesso!' only
\* if every plot selected by the four check boxes was generated in that
\* call; in particular, when a plot with controller is selected and
\* get_controller_tf yields None, success is not reported.
ClaimC27 ==
    status_label = StatusSucesso
    => /\ SelectedDrawn
       /\ (show_ctrl_resp_var \/ show_ctrl_lgr_var) => get_controller_tf.out # ReturnedNone

\* The coefficient lists of at most two integer coefficients, and the plants
\* they make.
Lists == UNION { [1..n -> { Flt(k * Scale, 0) : k \in (-MaxCoef)..MaxCoef }] : n \in 1..2 }

Plants == { tf(n, d) : n \in Lists, d \in { x \in Lists : ~AllZero(x) } }

\* With the controller Gc the path with controller is the path without
\* controller for the plant G: same open loop and same closed loop.
SamePaths(G, Gc) ==
    /\ Times(G, Gc).num = G.num
    /\ Times(G, Gc).den = G.den
    /\ feedback(Times(G, Gc)) = feedback(G)

\* C28: with controller type P and Kp = 1 the path with controller is
\* equivalent to the path without controller: G * Gc has the numerator and
\* denominator coefficients of G, feedback(G * Gc, 1) equals feedback(G, 1)
\* and the locus input is the same, for every plant G; the graphs drawn
\* with controller are those drawn without controller.
TheoremC28 ==
    (FrameOf("P") /\ kp_entry = <<IntTok(1)>>)
    => LET Gc == get_controller_tf.out
       IN /\ Gc.kind = "tf"
          /\ \A G \in Plants : SamePaths(G, Gc)
          /\ (DrewCtrl /\ DrewNoCtrl)
                => /\ SamePaths(System, Gc)
                   /\ ax_ctrl_lgr = ax_noctrl_lgr
                   /\ ax_ctrl_resp = ax_noctrl_resp
                   /\ lines_ctrl_resp = lines_noctrl_resp

\* The graphs with the controller P of gain 1 were drawn for the system
\* (s + 1) / (s^2 + MaxCoef s + 1).
WitnessC28 ==
    /\ FrameOf("P")
    /\ kp_entry = <<IntTok(1)>>
    /\ DrewCtrl
    /\ DrewNoCtrl
    /\ ax_ctrl_resp.kind = "tf"
    /\ num_entry = Text(<<1, 1>>)

\* -x, and the list of the negated coefficients.
Neg(x) == Flt(-x.v, -x.t)

Negated(coeffs) == [k \in 1..Len(coeffs) |-> Neg(coeffs[k])]

\* The table b has the shape and the labels of the table a, and its entries
\* are those of a negated.
NegatedTable(a, b) ==
    /\ Len(b) = Len(a)
    /\ \A i \in 1..Len(a) :
          /\ b[i].label = a[i].label
          /\ Len(b[i].e) = Len(a[i].e)
          /\ \A j \in 1..Len(a[i].e) : Float(b[i].e[j]) = Neg(Float(a[i].e[j]))

\* C29: for every denominator whose coefficients are all strictly positive,
\* routh_hurwitz on the negated denominator (all coefficients strictly
\* negative) returns the same classification and the same sign-change count
\* as on the denominator, with a table of the same shape whose entries are
\* negated.
TheoremC29 ==
    \A w \in Shown :
        LET coeffs == CoeffsOf(w)
            negated == routh_hurwitz(Negated(coeffs))
        IN (\A k \in 1..Len(coeffs) : Sign(coeffs[k]) > 0)
           => /\ negated.stability = w.stability
              /\ NegatedTable(w.rh_table, negated.table)

\* A denominator of five strictly positive coefficients whose table has
\* sign changes in its first column was analysed.
WitnessC29 ==
    \E w \in Shown :
        /\ \A k \in 1..Len(CoeffsOf(w)) : Sign(CoeffsOf(w)[k]) > 0
        /\ Len(CoeffsOf(w)) = 5
        /\ w.stability.cls = InstavelPolos(0).cls
        /\ w.stability.k = 2

\* C30: when generate_pdf_report has returned, every temporary PNG file that
\* save_temp_plot created has been closed and deleted, on every path, a
\* failure of pdf.output included: no file of temp_files is left.
ClaimC30 == temp_files = 0

====
